---- MODULE Spec2Model ----
(***************************************************************************)
(* The trace store of traceloop (server/storage, BadgerStore) as a state   *)
(* machine: the Badger key space, the JSON codec of encoding/json as the   *)
(* store uses it, and the four store operations plus Close.                *)
(*                                                                         *)
(* Strings are sequences of bytes (numbers 0..255).  Go values held in a   *)
(* trace map are tagged records:                                           *)
(*   [k |-> "str", s |-> bytes]   a Go string                              *)
(*   [k |-> "num", v |-> n]       a number exactly representable as float64*)
(*   [k |-> "nan"]                the float64 NaN                          *)
(*   [k |-> "list", e |-> seq]    a slice                                  *)
(*   [k |-> "map", f |-> fn]      a map[string]interface{}                 *)
(* A trace is a function from field names to such values.                  *)
(***************************************************************************)
EXTENDS Integers, Sequences, FiniteSets, TLC

VARIABLES
    store,      \* the Badger key space: a function from keys to stored bytes
    open,       \* FALSE once db.Close has run
    ret,        \* the last completed call of the sequential caller and its result
    acked,      \* trace id -> the trace of the last acknowledged StoreTrace on it
    overwrote,  \* the trace id of the latest acknowledged StoreTrace that replaced different content
    pc,         \* each goroutine's position: a caller inside StoreTrace, main and the handlers of the server
    pend,       \* the call in flight of a caller (trace, key, bytes) or the request of a handler
    rd          \* concurrent reader: position, snapshot and result of GetStats

vars == <<store, open, ret, acked, overwrote, pc, pend, rd>>

-----------------------------------------------------------------------------
(* Bounds of the model *)

\* Records a store holds beyond the limit of the list handler
ListExtra == 2

MaxSpans == 2
MaxLimit == 3
NWorkers == 2
BigSpans == 20

-----------------------------------------------------------------------------
(* Bytes and strings *)

\* "trace:"
Prefix == <<116, 114, 97, 99, 101, 58>>

\* U+FFFD in UTF-8
ReplacementChar == <<239, 191, 189>>

Cont(b) == b >= 128 /\ b <= 191

\* Length of the valid UTF-8 sequence at the head of s, 0 if the head byte is invalid.
RuneLen(s) ==
    LET b == s[1] IN
    IF b < 128 THEN 1
    ELSE IF b >= 194 /\ b <= 223
        THEN IF Len(s) >= 2 /\ Cont(s[2]) THEN 2 ELSE 0
    ELSE IF b >= 224 /\ b <= 239
        THEN IF /\ Len(s) >= 3
                /\ s[2] >= (IF b = 224 THEN 160 ELSE 128)
                /\ s[2] <= (IF b = 237 THEN 159 ELSE 191)
                /\ Cont(s[3])
             THEN 3 ELSE 0
    ELSE IF b >= 240 /\ b <= 244
        THEN IF /\ Len(s) >= 4
                /\ s[2] >= (IF b = 240 THEN 144 ELSE 128)
                /\ s[2] <= (IF b = 244 THEN 143 ELSE 191)
                /\ Cont(s[3]) /\ Cont(s[4])
             THEN 4 ELSE 0
    ELSE 0

RECURSIVE CoerceUTF8(_)
\* encoding/json writes a string coerced to valid UTF-8: every invalid byte
\* becomes U+FFFD.  This is the string a later Unmarshal reads back.
CoerceUTF8(s) ==
    IF s = <<>> THEN <<>>
    ELSE LET n == RuneLen(s) IN
         IF n = 0 THEN ReplacementChar \o CoerceUTF8(Tail(s))
         ELSE SubSeq(s, 1, n) \o CoerceUTF8(SubSeq(s, n + 1, Len(s)))

RECURSIVE EscapedLen(_)
\* Number of bytes encoding/json writes for the content of a string: a valid
\* sequence is written as it is, an invalid byte as the six-character escape of U+FFFD.
EscapedLen(s) ==
    IF s = <<>> THEN 0
    ELSE LET n == RuneLen(s) IN
         IF n = 0 THEN 6 + EscapedLen(Tail(s))
         ELSE n + EscapedLen(SubSeq(s, n + 1, Len(s)))

RECURSIVE LexLess(_, _)
\* bytes.Compare(a, b) < 0: the key order of a Badger iterator
LexLess(a, b) ==
    IF b = <<>> THEN FALSE
    ELSE IF a = <<>> THEN TRUE
    ELSE IF a[1] # b[1] THEN a[1] < b[1]
    ELSE LexLess(Tail(a), Tail(b))

HasPrefix(key, p) == Len(key) >= Len(p) /\ SubSeq(key, 1, Len(p)) = p

\* Mutant: the key leaves the id out
TraceKey_NoId(id) == Prefix

\* key := []byte("trace:" + traceID)
TraceKey(id) == Prefix \o id

\* Mutant: GetTrace looks the id up without the prefix
LookupKey_NoPrefix(id) == id

\* key := []byte("trace:" + id) in GetTrace
LookupKey(id) == <<116, 114, 97, 99, 101, 58>> \o id

\* opts.Prefix = []byte("trace:") in GetTraces and GetStats
ScanPrefix == <<116, 114, 97, 99, 101, 58>>

-----------------------------------------------------------------------------
(* The codec: json.Marshal and json.Unmarshal as the store calls them.      *)
(* Stored bytes are either a JSON text, held as its document               *)
(*   [j |-> "string", s], [j |-> "number", v], [j |-> "array", e],         *)
(*   [j |-> "object", f]                                                   *)
(* together with its length in bytes, or bytes that are no JSON text.       *)

Absent == [k |-> "absent"]
Str(s) == [k |-> "str", s |-> s]
Num(n) == [k |-> "num", v |-> n]
NaN == [k |-> "nan"]
List(e) == [k |-> "list", e |-> e]
Map(f) == [k |-> "map", f |-> f]

\* len(name) of the field names the model uses
FieldLen(name) ==
    CASE name = "trace_id" -> 8
      [] name = "spans" -> 5
      [] name = "name" -> 4
      [] name = "span_id" -> 7

RECURSIVE Digits(_)
\* Number of characters of the decimal text of an integer
Digits(n) ==
    IF n < 0 THEN 1 + Digits(0 - n)
    ELSE IF n < 10 THEN 1
    ELSE 1 + Digits(n \div 10)

RECURSIVE SumSeq(_)
SumSeq(q) == IF q = <<>> THEN 0 ELSE Head(q) + SumSeq(Tail(q))

RECURSIVE SumSet(_, _)
\* Sum of fn[x] over the set S
SumSet(S, fn) ==
    IF S = {} THEN 0
    ELSE LET x == CHOOSE y \in S : TRUE IN fn[x] + SumSet(S \ {x}, fn)

Commas(n) == IF n > 1 THEN n - 1 ELSE 0

RECURSIVE EncodeValue(_)
RECURSIVE EncodeMap(_)

\* json.Marshal of one value: [ok, doc, len]; ok is FALSE for a value
\* encoding/json rejects (UnsupportedValueError).
\* (enc is joined with an empty sequence or function so that it is held as
\* explicit values and each member is encoded once.)
EncodeValue(v) ==
    CASE v.k = "str" ->
            [ok |-> TRUE, doc |-> [j |-> "string", s |-> CoerceUTF8(v.s)],
             len |-> 2 + EscapedLen(v.s)]
      [] v.k = "num" ->
            [ok |-> TRUE, doc |-> [j |-> "number", v |-> v.v], len |-> Digits(v.v)]
      [] v.k = "nan" ->
            [ok |-> FALSE, doc |-> [j |-> "none"], len |-> 0]
      [] v.k = "list" ->
            LET enc == [i \in 1..Len(v.e) |-> EncodeValue(v.e[i])] \o <<>> IN
            [ok |-> \A i \in 1..Len(v.e) : enc[i].ok,
             doc |-> [j |-> "array", e |-> [i \in 1..Len(v.e) |-> enc[i].doc]],
             len |-> 2 + SumSeq([i \in 1..Len(v.e) |-> enc[i].len]) + Commas(Len(v.e))]
      [] v.k = "map" -> EncodeMap(v.f)

\* json.Marshal of a map[string]interface{}: an object, one member per key
EncodeMap(m) ==
    LET enc == [name \in DOMAIN m |-> EncodeValue(m[name])] @@ <<>> IN
    [ok |-> \A name \in DOMAIN m : enc[name].ok,
     doc |-> [j |-> "object", f |-> [name \in DOMAIN m |-> enc[name].doc]],
     len |-> 2 + SumSet(DOMAIN m, [name \in DOMAIN m |-> FieldLen(name) + 3 + enc[name].len])
               + Commas(Cardinality(DOMAIN m))]

\* data, err := json.Marshal(trace)
Marshal(trace) ==
    LET enc == EncodeMap(trace) IN
    IF enc.ok
    THEN [ok |-> TRUE, data |-> [kind |-> "json", doc |-> enc.doc, len |-> enc.len]]
    ELSE [ok |-> FALSE, data |-> [kind |-> "none"]]

RECURSIVE DecodeValue(_)
\* The Go value json.Unmarshal builds for a document read into interface{}
DecodeValue(d) ==
    CASE d.j = "string" -> Str(d.s)
      [] d.j = "number" -> Num(d.v)
      [] d.j = "array" -> List([i \in 1..Len(d.e) |-> DecodeValue(d.e[i])])
      [] d.j = "object" -> Map([name \in DOMAIN d.f |-> DecodeValue(d.f[name])])

\* json.Unmarshal(val, &trace) with trace a map[string]interface{}:
\* a syntax error for bytes that are no JSON text, a type error for a JSON
\* text that is no object.
Unmarshal(val) ==
    IF val.kind # "json"
    THEN [ok |-> FALSE, trace |-> <<>>, err |-> "json: syntax error"]
    ELSE IF val.doc.j # "object"
    THEN [ok |-> FALSE, trace |-> <<>>, err |-> "json: cannot unmarshal into map"]
    ELSE [ok |-> TRUE,
          trace |-> [name \in DOMAIN val.doc.f |-> DecodeValue(val.doc.f[name])],
          err |-> ""]

-----------------------------------------------------------------------------
(* The store operations, as functions of the database they read.            *)

\* db with data written under key (txn.Set followed by the commit)
Put(db, key, data) ==
    [k \in DOMAIN db \cup {key} |-> IF k = key THEN data ELSE db[k]]

\* The keys of S in iteration order: the i-th is the key that i - 1 keys
\* of S precede.  (rank is joined with an empty function so that it is
\* computed once.)
SortKeys(S) ==
    LET rank == [x \in S |-> Cardinality({y \in S \ {x} : LexLess(y, x)})] @@ <<>> IN
    [i \in 1..Cardinality(S) |-> CHOOSE x \in S : rank[x] = i - 1] \o <<>>

\* Mutant: the iterator runs with opts.Reverse set
PrefixKeys_Reverse(db) ==
    LET q == SortKeys({k \in DOMAIN db : HasPrefix(k, ScanPrefix)}) IN
    [i \in 1..Len(q) |-> q[Len(q) + 1 - i]]

\* The keys an iterator with opts.Prefix = "trace:" visits, in order
PrefixKeys(db) == SortKeys({k \in DOMAIN db : HasPrefix(k, ScanPrefix)})

\* traceID, ok := trace["trace_id"].(string)
ExtractTraceID(trace) ==
    IF "trace_id" \in DOMAIN trace /\ trace["trace_id"].k = "str"
    THEN [ok |-> TRUE, id |-> trace["trace_id"].s]
    ELSE [ok |-> FALSE, id |-> <<>>]

\* db.View / db.Update on a closed DB return badger.ErrDBClosed
ErrDBClosed == "DB Closed"

\* An error of the persistence layer other than ErrDBClosed and ErrKeyNotFound
ErrIO == "input/output error"

\* fmt.Errorf("failed to get stats: %w", err)
StatsErr(cause) ==
    CASE cause = ErrDBClosed -> "failed to get stats: DB Closed"
      [] cause = ErrIO -> "failed to get stats: input/output error"
      [] cause = "json: syntax error" -> "failed to get stats: json: syntax error"
      [] OTHER -> "failed to get stats: json: cannot unmarshal into map"

\* fmt.Errorf("failed to get traces: %w", err)
TracesErr(cause) ==
    IF cause = ErrDBClosed THEN "failed to get traces: DB Closed"
    ELSE IF cause = ErrIO THEN "failed to get traces: input/output error"
    ELSE "failed to get traces: failed to unmarshal trace"

RECURSIVE ScanTraces_OffByOne(_, _, _, _)
\* Mutant: the loop runs while count <= limit
ScanTraces_OffByOne(db, keys, limit, traces) ==
    IF keys = <<>> \/ ~(Len(traces) <= limit)
    THEN [ok |-> TRUE, val |-> traces, err |-> ""]
    ELSE LET u == Unmarshal(db[Head(keys)]) IN
         IF ~u.ok
         THEN [ok |-> FALSE, val |-> <<>>,
               err |-> "failed to get traces: failed to unmarshal trace"]
         ELSE ScanTraces_OffByOne(db, Tail(keys), limit, Append(traces, u.trace))

RECURSIVE ScanTraces(_, _, _, _)
\* The loop of GetTraces: for it.Rewind(); it.Valid() && count < limit; it.Next()
ScanTraces(db, keys, limit, traces) ==
    IF keys = <<>> \/ ~(Len(traces) < limit)
    THEN [ok |-> TRUE, val |-> traces, err |-> ""]
    ELSE LET u == Unmarshal(db[Head(keys)]) IN
         IF ~u.ok
         THEN [ok |-> FALSE, val |-> <<>>, err |-> TracesErr(u.err)]
         ELSE ScanTraces(db, Tail(keys), limit, Append(traces, u.trace))

\* Mutant: a listing that finds no record is reported as an error
GetTracesResult_ErrOnEmpty(db, isOpen, limit) ==
    IF ~isOpen
    THEN [ok |-> FALSE, val |-> <<>>, err |-> TracesErr(ErrDBClosed)]
    ELSE IF PrefixKeys(db) = <<>>
    THEN [ok |-> FALSE, val |-> <<>>, err |-> "trace not found"]
    ELSE ScanTraces(db, PrefixKeys(db), limit, <<>>)

GetTracesResult(db, isOpen, limit) ==
    IF ~isOpen
    THEN [ok |-> FALSE, val |-> <<>>, err |-> TracesErr(ErrDBClosed)]
    ELSE ScanTraces(db, PrefixKeys(db), limit, <<>>)

\* Mutant: a missing key gives an empty trace and no error
GetTraceResult_EmptyOnMissing(db, isOpen, id) ==
    IF ~isOpen
    THEN [ok |-> FALSE, val |-> <<>>, err |-> ErrDBClosed]
    ELSE IF LookupKey(id) \notin DOMAIN db
    THEN [ok |-> TRUE, val |-> <<>>, err |-> ""]
    ELSE LET u == Unmarshal(db[LookupKey(id)]) IN
         IF ~u.ok
         THEN [ok |-> FALSE, val |-> <<>>, err |-> u.err]
         ELSE [ok |-> TRUE, val |-> u.trace, err |-> ""]

\* Mutant: every failure of the read is reported as not found
GetTraceResult_NotFoundOnError(db, isOpen, id) ==
    IF ~isOpen
    THEN [ok |-> FALSE, val |-> <<>>, err |-> ErrDBClosed]
    ELSE IF LookupKey(id) \notin DOMAIN db
    THEN [ok |-> FALSE, val |-> <<>>, err |-> "trace not found"]
    ELSE LET u == Unmarshal(db[LookupKey(id)]) IN
         IF ~u.ok
         THEN [ok |-> FALSE, val |-> <<>>, err |-> "trace not found"]
         ELSE [ok |-> TRUE, val |-> u.trace, err |-> ""]

GetTraceResult(db, isOpen, id) ==
    IF ~isOpen
    THEN [ok |-> FALSE, val |-> <<>>, err |-> ErrDBClosed]
    ELSE IF LookupKey(id) \notin DOMAIN db
    THEN [ok |-> FALSE, val |-> <<>>, err |-> "trace not found"]
    ELSE LET u == Unmarshal(db[LookupKey(id)]) IN
         IF ~u.ok
         THEN [ok |-> FALSE, val |-> <<>>, err |-> u.err]
         ELSE [ok |-> TRUE, val |-> u.trace, err |-> ""]

\* Mutant: the type assertion names []map[string]interface{}, which no
\* decoded array satisfies
SpanCount_TypedSlice(trace) == 0

\* if spans, ok := trace["spans"].([]interface{}); ok { totalSpans += len(spans) }
SpanCount(trace) ==
    IF "spans" \in DOMAIN trace /\ trace["spans"].k = "list"
    THEN Len(trace["spans"].e)
    ELSE 0

\* Mutant: the size is divided by 1024 only
StorageSizeStr_KB(size) == (size * 100 + 512) \div 1024

\* fmt.Sprintf("%.2f MB", float64(storageSize)/(1024*1024)), as hundredths of a MB
StorageSizeStr(size) == (size * 100 + 524288) \div 1048576

RECURSIVE ScanStats_SkipCorrupt(_, _, _, _, _)
\* Mutant: a record that does not decode is passed over after it was counted
ScanStats_SkipCorrupt(db, keys, totalTraces, totalSpans, storageSize) ==
    IF keys = <<>>
    THEN [ok |-> TRUE,
          val |-> [total_traces |-> totalTraces, total_spans |-> totalSpans,
                   storage_size |-> StorageSizeStr(storageSize)],
          err |-> ""]
    ELSE LET val == db[Head(keys)]
             u == Unmarshal(val)
         IN  IF ~u.ok
             THEN ScanStats_SkipCorrupt(db, Tail(keys), totalTraces + 1,
                                        totalSpans, storageSize)
             ELSE ScanStats_SkipCorrupt(db, Tail(keys), totalTraces + 1,
                                        totalSpans + SpanCount(u.trace),
                                        storageSize + val.len)

RECURSIVE ScanStats(_, _, _, _, _)
\* The loop of GetStats; totalTraces is incremented before the record is decoded
ScanStats(db, keys, totalTraces, totalSpans, storageSize) ==
    IF keys = <<>>
    THEN [ok |-> TRUE,
          val |-> [total_traces |-> totalTraces, total_spans |-> totalSpans,
                   storage_size |-> StorageSizeStr(storageSize)],
          err |-> ""]
    ELSE LET val == db[Head(keys)]
             u == Unmarshal(val)
         IN  IF ~u.ok
             THEN [ok |-> FALSE, val |-> <<>>, err |-> StatsErr(u.err)]
             ELSE ScanStats(db, Tail(keys), totalTraces + 1,
                            totalSpans + SpanCount(u.trace), storageSize + val.len)

GetStatsResult(db, isOpen) ==
    IF ~isOpen
    THEN [ok |-> FALSE, val |-> <<>>, err |-> StatsErr(ErrDBClosed)]
    ELSE ScanStats(db, PrefixKeys(db), 0, 0, 0)

\* Mutant: StoreTrace does not notice that the DB is closed
StoreTraceResult_IgnoreClosed(db, isOpen, trace) ==
    LET x == ExtractTraceID(trace)
        m == Marshal(trace)
    IN  IF ~x.ok THEN [ok |-> FALSE, err |-> "trace_id is required", id |-> <<>>, db |-> db]
        ELSE IF ~m.ok THEN [ok |-> FALSE, err |-> "failed to marshal trace", id |-> x.id, db |-> db]
        ELSE [ok |-> TRUE, err |-> "", id |-> x.id, db |-> Put(db, TraceKey(x.id), m.data)]

\* The part of StoreTrace before db.Update: the id check and json.Marshal
PrepareStore(trace) ==
    LET x == ExtractTraceID(trace)
        m == Marshal(trace)
    IN  IF ~x.ok
        THEN [ok |-> FALSE, err |-> "trace_id is required", id |-> <<>>,
              key |-> <<>>, data |-> [kind |-> "none"]]
        ELSE IF ~m.ok
        THEN [ok |-> FALSE, err |-> "failed to marshal trace", id |-> x.id,
              key |-> <<>>, data |-> [kind |-> "none"]]
        ELSE [ok |-> TRUE, err |-> "", id |-> x.id,
              key |-> TraceKey(x.id), data |-> m.data]

\* Mutant: StoreTrace clears the database before it writes
StoreTraceResult_DropAll(db, isOpen, trace) ==
    LET p == PrepareStore(trace) IN
    IF ~p.ok THEN [ok |-> FALSE, err |-> p.err, id |-> p.id, db |-> db]
    ELSE IF ~isOpen THEN [ok |-> FALSE, err |-> ErrDBClosed, id |-> p.id, db |-> db]
    ELSE [ok |-> TRUE, err |-> "", id |-> p.id, db |-> Put(<<>>, p.key, p.data)]

\* Mutant: the key is written with the bytes encoded so far before the
\* encoder reports the value it cannot represent
StoreTraceResult_PartialWrite(db, isOpen, trace) ==
    LET p == PrepareStore(trace) IN
    IF ~p.ok /\ ExtractTraceID(trace).ok /\ isOpen
    THEN [ok |-> FALSE, err |-> p.err, id |-> p.id,
          db |-> Put(db, TraceKey(p.id), [kind |-> "garbage", len |-> 1])]
    ELSE IF ~p.ok THEN [ok |-> FALSE, err |-> p.err, id |-> p.id, db |-> db]
    ELSE IF ~isOpen THEN [ok |-> FALSE, err |-> ErrDBClosed, id |-> p.id, db |-> db]
    ELSE [ok |-> TRUE, err |-> "", id |-> p.id, db |-> Put(db, p.key, p.data)]

\* StoreTrace as one call: [ok, err, id, db], db the database afterwards
StoreTraceResult(db, isOpen, trace) ==
    LET p == PrepareStore(trace) IN
    IF ~p.ok THEN [ok |-> FALSE, err |-> p.err, id |-> p.id, db |-> db]
    ELSE IF ~isOpen THEN [ok |-> FALSE, err |-> ErrDBClosed, id |-> p.id, db |-> db]
    ELSE [ok |-> TRUE, err |-> "", id |-> p.id, db |-> Put(db, p.key, p.data)]

-----------------------------------------------------------------------------
(* The calls the model makes *)

\* The trace ids callers store under: the empty id, "a", and one invalid byte
StoreIds == {<<>>, <<97>>, <<255>>}

\* The ids callers ask for: those, "b", and U+FFFD
QueryIds == StoreIds \cup {<<98>>, ReplacementChar}

Span == Map([span_id |-> Str(<<97>>)])
Spans(n) == List([i \in 1..n |-> Span])

\* The map literal of a trace: the fields whose value is not Absent
MkTrace(idv, spansv, namev) ==
    LET val == [trace_id |-> idv, spans |-> spansv, name |-> namev] IN
    [f \in {g \in {"trace_id", "spans", "name"} : val[g] # Absent} |-> val[f]]

\* The traces callers submit: every id with 0..MaxSpans spans (the empty id
\* with none), and on id "a" a trace without spans, one whose name holds an
\* invalid byte and one that holds a NaN; a trace without trace_id and one
\* whose trace_id is a number.
InputTraces ==
    {MkTrace(Str(id), Spans(n), Absent) : id \in StoreIds \ {<<>>}, n \in 0..MaxSpans}
    \cup {MkTrace(Str(<<>>), Spans(0), Absent)}
    \cup {MkTrace(Str(<<97>>), Absent, Absent),
          MkTrace(Str(<<97>>), Spans(1), Str(<<255>>)),
          MkTrace(Str(<<97>>), Spans(1), NaN),
          MkTrace(Absent, Spans(1), Absent),
          MkTrace(Num(7), Spans(1), Absent)}

Limits == (0 - 1)..MaxLimit

NoRet == [op |-> "none", arg |-> <<>>, ok |-> TRUE, val |-> <<>>, err |-> ""]

Workers == 1..NWorkers

Init ==
    /\ store = <<>>
    /\ open = TRUE
    /\ ret = NoRet
    /\ acked = <<>>
    /\ overwrote = {}
    /\ pc = [w \in Workers |-> "idle"]
    /\ pend = [w \in Workers |-> <<>>]
    /\ rd = [pc |-> "idle"]

\* What the caller knows after an acknowledged StoreTrace(trace) on id
Acknowledge(id, trace) ==
    /\ acked' = Put(acked, id, trace)
    /\ overwrote' = IF id \in DOMAIN acked /\ acked[id] # trace
                    THEN {id} ELSE overwrote

StoreTrace(trace) ==
    LET r == StoreTraceResult(store, open, trace) IN
    /\ store' = r.db
    /\ ret' = [op |-> "StoreTrace", arg |-> trace, ok |-> r.ok, val |-> <<>>, err |-> r.err]
    /\ IF r.ok THEN Acknowledge(r.id, trace) ELSE UNCHANGED <<acked, overwrote>>
    /\ UNCHANGED <<open, pc, pend, rd>>

\* Mutant: GetTrace deletes a record that it could not decode
GetTrace_DropUndecodable(id) ==
    LET r == GetTraceResult(store, open, id) IN
    /\ ret' = [op |-> "GetTrace", arg |-> id, ok |-> r.ok, val |-> r.val, err |-> r.err]
    /\ store' = IF ~r.ok /\ open /\ LookupKey(id) \in DOMAIN store
                THEN [k \in DOMAIN store \ {LookupKey(id)} |-> store[k]]
                ELSE store
    /\ UNCHANGED <<open, acked, overwrote, pc, pend, rd>>

GetTrace(id) ==
    LET r == GetTraceResult(store, open, id) IN
    /\ ret' = [op |-> "GetTrace", arg |-> id, ok |-> r.ok, val |-> r.val, err |-> r.err]
    /\ UNCHANGED <<store, open, acked, overwrote, pc, pend, rd>>

GetTraces(limit) ==
    LET r == GetTracesResult(store, open, limit) IN
    /\ ret' = [op |-> "GetTraces", arg |-> limit, ok |-> r.ok, val |-> r.val, err |-> r.err]
    /\ UNCHANGED <<store, open, acked, overwrote, pc, pend, rd>>

GetStats ==
    LET r == GetStatsResult(store, open) IN
    /\ ret' = [op |-> "GetStats", arg |-> <<>>, ok |-> r.ok, val |-> r.val, err |-> r.err]
    /\ UNCHANGED <<store, open, acked, overwrote, pc, pend, rd>>

\* Mutant: Close on a closed DB reports that the DB is closed
CloseResult_ErrOnClosed(isOpen) ==
    IF isOpen THEN [ok |-> TRUE, err |-> ""] ELSE [ok |-> FALSE, err |-> ErrDBClosed]

\* s.db.Close(): the first call closes the DB and returns nil, a later one
\* does nothing and returns nil
CloseResult(isOpen) == [ok |-> TRUE, err |-> ""]

\* Close; arg records whether the store was open when it was called
Close ==
    /\ open' = FALSE
    /\ ret' = [op |-> "Close", arg |-> IF open THEN "first" ELSE "again",
               ok |-> CloseResult(open).ok, val |-> <<>>, err |-> CloseResult(open).err]
    /\ UNCHANGED <<store, acked, overwrote, pc, pend, rd>>

Next ==
    \/ \E trace \in InputTraces : StoreTrace(trace)
    \/ \E id \in QueryIds : GetTrace(id)
    \/ \E limit \in Limits : GetTraces(limit)
    \/ GetStats
    \/ Close

Spec == Init /\ [][Next]_vars

-----------------------------------------------------------------------------
(* Properties of the sequential calls *)

\* The trace id of an input trace that has one
IdOf(trace) == ExtractTraceID(trace).id

\* len(spans) of a submitted trace
InputSpanLen(trace) ==
    IF "spans" \in DOMAIN trace /\ trace["spans"].k = "list"
    THEN Len(trace["spans"].e) ELSE 0

Range(q) == {q[i] : i \in 1..Len(q)}

Min(a, b) == IF a < b THEN a ELSE b

\* C1: store/get round trip.  While the store is open, GetTrace(x) on an id
\* whose last acknowledged StoreTrace submitted t succeeds and returns a trace
\* equal to t.
C1_RoundTrip ==
    (ret.op = "GetTrace" /\ open /\ ret.arg \in DOMAIN acked)
        => (ret.ok /\ ret.val = acked[ret.arg])

\* C2: last writer wins.  After an acknowledged StoreTrace replaced different
\* content on an id, exactly one record exists for the id, GetTrace returns
\* exactly the second trace, and GetTraces and GetStats count the id once.
C2_LastWriterWins ==
    \A id \in overwrote :
        /\ Cardinality({k \in DOMAIN store : k = TraceKey(id)}) = 1
        /\ (ret.op = "GetTrace" /\ open /\ ret.arg = id)
               => (ret.ok /\ ret.val = acked[id])
        /\ (ret.op = "GetTraces" /\ open /\ ret.arg >= Cardinality(DOMAIN acked))
               => (ret.ok /\ Len(ret.val) = Cardinality(DOMAIN acked))
        /\ (ret.op = "GetStats" /\ open)
               => (ret.ok /\ ret.val.total_traces = Cardinality(DOMAIN acked))

\* C3 as stated: in every reachable state GetTrace on an id that was never
\* stored fails with the not-found error.
C3_NotFoundAlways ==
    (ret.op = "GetTrace" /\ ret.arg \notin DOMAIN acked)
        => (~ret.ok /\ ret.err = "trace not found")

\* C3 amended: in every reachable state in which the store is open, GetTrace
\* on an id that was never stored fails with the not-found error.
C3_NotFoundWhileOpen ==
    (ret.op = "GetTrace" /\ open /\ ret.arg \notin DOMAIN acked)
        => (~ret.ok /\ ret.err = "trace not found")

C3_Witness ==
    /\ ret.op = "GetTrace" /\ open
    /\ ret.arg = ReplacementChar
    /\ <<255>> \in DOMAIN acked
    /\ ~ret.ok /\ ret.err = "trace not found"

\* The trace has a trace_id that is a non-empty string
HasNonEmptyID(trace) == ExtractTraceID(trace).ok /\ IdOf(trace) # <<>>

\* C4: StoreTrace rejects a trace whose trace_id is missing, not a string or
\* the empty string with the validation error, and writes no record.
C4_EmptyIdRejected ==
    (ret.op = "StoreTrace" /\ ~HasNonEmptyID(ret.arg))
        => (~ret.ok /\ ret.err = "trace_id is required"
            /\ TraceKey(<<>>) \notin DOMAIN store)

\* C5: stats exactness.  After any sequence of acknowledged StoreTrace calls on
\* an open store, GetStats reports as total_traces the number of distinct
\* stored ids and as total_spans the sum of len(spans) over the trace last
\* stored under each id.
C5_StatsExact ==
    (ret.op = "GetStats" /\ open)
        => /\ ret.ok
           /\ ret.val.total_traces = Cardinality(DOMAIN acked)
           /\ ret.val.total_spans =
                  SumSet(DOMAIN acked, [id \in DOMAIN acked |-> InputSpanLen(acked[id])])

C5_Witness ==
    /\ ret.op = "GetStats" /\ ret.ok
    /\ overwrote = {<<97>>}
    /\ DOMAIN acked = {<<97>>}
    /\ InputSpanLen(acked[<<97>>]) = 1
    /\ ret.val.total_traces = 1 /\ ret.val.total_spans = 1

\* C6: listing bound.  On an open store whose records all decode, GetTraces
\* with a positive limit returns min(limit, stored count) traces, so never
\* more than limit, and every stored trace when limit >= the stored count.
C6_ListingBound ==
    (ret.op = "GetTraces" /\ open /\ ret.arg > 0)
        => /\ ret.ok
           /\ Len(ret.val) <= ret.arg
           /\ Len(ret.val) = Min(ret.arg, Cardinality(DOMAIN acked))
           /\ ret.arg >= Cardinality(DOMAIN acked)
                  => \A id \in DOMAIN acked :
                        GetTraceResult(store, open, id).val \in Range(ret.val)

C6_Witness ==
    /\ ret.op = "GetTraces" /\ ret.ok
    /\ Cardinality(DOMAIN acked) = 3
    /\ ret.arg = 2
    /\ Len(ret.val) = 2

\* C7: GetTraces with limit <= 0 fails; it returns no successful listing.
C7_NonPositiveLimitFails ==
    (ret.op = "GetTraces" /\ ret.arg <= 0) => ~ret.ok

\* C2 up to the codec: what C2 states, with "the second trace" read as the
\* trace the codec gives back for it (Unmarshal of its Marshal).
Decoded(trace) == Unmarshal(Marshal(trace).data).trace

C2_LastWriterWinsUpToCodec ==
    \A id \in overwrote :
        /\ Cardinality({k \in DOMAIN store : k = TraceKey(id)}) = 1
        /\ (ret.op = "GetTrace" /\ open /\ ret.arg = id)
               => (ret.ok /\ ret.val = Decoded(acked[id]))
        /\ (ret.op = "GetTraces" /\ open /\ ret.arg >= Cardinality(DOMAIN acked))
               => (ret.ok /\ Len(ret.val) = Cardinality(DOMAIN acked))
        /\ (ret.op = "GetStats" /\ open)
               => (ret.ok /\ ret.val.total_traces = Cardinality(DOMAIN acked))

-----------------------------------------------------------------------------
(* Properties of the calls made after Close *)

StoreCalls == {"StoreTrace", "GetTrace", "GetTraces", "GetStats"}

\* The error is badger.ErrDBClosed, bare or wrapped by GetTraces or GetStats
IsClosedErr(err) ==
    err \in {ErrDBClosed, TracesErr(ErrDBClosed), StatsErr(ErrDBClosed)}

\* C14 as stated: every StoreTrace, GetTrace, GetTraces and GetStats issued
\* after Close fails with a closed error, never succeeds, and never changes
\* the stored records.
C14_ClosedErrorAfterClose ==
    [][~open => /\ store' = store
                /\ ret'.op \in StoreCalls
                       => (~ret'.ok /\ IsClosedErr(ret'.err))]_vars

\* C14 amended: every StoreTrace, GetTrace, GetTraces and GetStats issued
\* after Close fails and never changes the stored records; the error is the
\* closed error, except that StoreTrace of a trace it rejects before it
\* reaches the database fails with that validation or encoding error.
C14_FailsAfterClose ==
    [][~open => /\ store' = store
                /\ ret'.op \in StoreCalls
                       => /\ ~ret'.ok
                          /\ IF ret'.op = "StoreTrace" /\ ~PrepareStore(ret'.arg).ok
                             THEN ret'.err = PrepareStore(ret'.arg).err
                             ELSE IsClosedErr(ret'.err)]_vars

\* StoreTrace of a well-formed trace on a closed store that holds records
\* failed with the closed error
C14_Witness ==
    /\ ~open
    /\ ret.op = "StoreTrace" /\ PrepareStore(ret.arg).ok
    /\ ~ret.ok /\ ret.err = ErrDBClosed
    /\ IdOf(ret.arg) \notin DOMAIN acked
    /\ Cardinality(DOMAIN store) = 2

\* C15: Close is idempotent.  A Close on a store that is already closed
\* returns without error and leaves the store closed with the same records.
C15_CloseIdempotent ==
    [][(~open /\ ret'.op = "Close")
           => (ret'.ok /\ ret'.arg = "again" /\ ~open' /\ store' = store)]_vars

\* A second Close has returned on a store that holds records
C15_Witness ==
    /\ ret.op = "Close" /\ ret.arg = "again" /\ ret.ok
    /\ ~open
    /\ Cardinality(DOMAIN store) = 2

-----------------------------------------------------------------------------
(* Properties of the listing and of the statistics *)

\* Byte string a sorts before b: a is a proper prefix of b, or at the first
\* position where they differ a holds the smaller byte
BytesBefore(a, b) ==
    \E i \in 1..Len(b) :
        /\ \A j \in 1..(i - 1) : j <= Len(a) /\ a[j] = b[j]
        /\ i > Len(a) \/ a[i] < b[i]

\* C16: listing order.  On an open store GetTraces(limit) with a positive
\* limit returns the traces whose keys are the limit smallest in lexicographic byte order of
\* "trace:" + id, in ascending key order; the result is a function of the set
\* of stored records and not of the order in which they were stored.
C16_ListingOrder ==
    (ret.op = "GetTraces" /\ open /\ ret.arg > 0) =>
        LET keys == DOMAIN store
            m == Min(ret.arg, Cardinality(keys))
        IN  /\ ret.ok
            /\ Len(ret.val) = m
            /\ \A i \in 1..m :
                   \E k \in keys :
                       /\ Cardinality({j \in keys : BytesBefore(j, k)}) = i - 1
                       /\ ret.val[i] = Unmarshal(store[k]).trace

\* Three records are stored; GetTraces(2) returned the trace with the empty
\* id, then the trace with id "a", and left out the one whose id is byte 255
C16_Witness ==
    /\ ret.op = "GetTraces" /\ open /\ ret.arg = 2 /\ ret.ok
    /\ DOMAIN acked = StoreIds
    /\ Len(ret.val) = 2
    /\ IdOf(ret.val[1]) = <<>>
    /\ IdOf(ret.val[2]) = <<97>>

\* C18: on an open store that holds no records, GetTraces with a positive
\* limit returns the empty sequence and no error, and GetStats returns
\* total_traces = 0 and total_spans = 0 and no error.
C18_EmptyStore ==
    (open /\ DOMAIN store = {})
        => /\ (ret.op = "GetTraces" /\ ret.arg > 0)
                  => (ret.ok /\ ret.val = <<>>)
           /\ ret.op = "GetStats"
                  => (ret.ok /\ ret.val.total_traces = 0 /\ ret.val.total_spans = 0)

\* GetTraces(2) has returned on an open store that holds no records
C18_Witness ==
    /\ open /\ DOMAIN store = {} /\ DOMAIN acked = {}
    /\ ret.op = "GetTraces" /\ ret.arg = 2
    /\ ret.ok /\ Len(ret.val) = 0

\* C22: records are never removed while the store is open.  No step of
\* StoreTrace, GetTrace, GetTraces or GetStats takes a key out of the store,
\* and a GetTrace(x) that would succeed before the step succeeds after it.
C22_NeverRemoved ==
    [][(open /\ open')
           => /\ DOMAIN store \subseteq DOMAIN store'
              /\ \A id \in QueryIds :
                     GetTraceResult(store, open, id).ok
                         => GetTraceResult(store', open', id).ok]_vars

\* GetTrace succeeded on an id that was stored, read and stored again with
\* other content, next to two other records
C22_Witness ==
    /\ ret.op = "GetTrace" /\ ret.ok /\ open
    /\ ret.arg \in overwrote
    /\ Cardinality(DOMAIN store) = 3

\* C24: the id-to-key mapping.  StoreTrace and GetTrace map an id to the
\* same key; distinct ids get distinct keys and repeated writes to one id
\* address one key, so the store holds exactly one key per stored id; and
\* every key StoreTrace wrote lies under the prefix that GetTraces and
\* GetStats scan, and is visited by the scan.
C24_KeyMapping ==
    /\ \A x \in QueryIds : TraceKey(x) = LookupKey(x)
    /\ \A x, y \in QueryIds : TraceKey(x) = TraceKey(y) => x = y
    /\ DOMAIN store = {TraceKey(id) : id \in DOMAIN acked}
    /\ Cardinality(DOMAIN store) = Cardinality(DOMAIN acked)
    /\ \A k \in DOMAIN store :
           HasPrefix(k, ScanPrefix) /\ k \in Range(PrefixKeys(store))

\* Three ids are stored, one of them written twice, and GetTrace found the
\* record of the id written twice
C24_Witness ==
    /\ Cardinality(DOMAIN acked) = 3
    /\ overwrote # {}
    /\ ret.op = "GetTrace" /\ ret.ok /\ ret.arg \in overwrote

\* C26: a StoreTrace that fails, on the trace_id check or on a value that
\* json.Marshal cannot represent, leaves the store unchanged: it creates no
\* record, and a record under that id keeps its content.
C26_FailedStoreNoChange ==
    [][(ret'.op = "StoreTrace" /\ ~ret'.ok) => store' = store]_vars

\* StoreTrace of a trace that holds a NaN failed on an id that has a record,
\* and the record still gives the trace stored before
C26_Witness ==
    /\ ret.op = "StoreTrace" /\ ~ret.ok /\ ret.err = "failed to marshal trace"
    /\ open
    /\ IdOf(ret.arg) \in DOMAIN acked
    /\ GetTraceResult(store, open, IdOf(ret.arg)).val = Decoded(acked[IdOf(ret.arg)])

\* C27: every trace that a successful GetTrace or GetTraces returns carries
\* a trace_id that is a non-empty string.
C27_NonEmptyIdOnRead ==
    /\ (ret.op = "GetTrace" /\ ret.ok) => HasNonEmptyID(ret.val)
    /\ (ret.op = "GetTraces" /\ ret.ok)
           => \A i \in 1..Len(ret.val) : HasNonEmptyID(ret.val[i])

\* C34: key/record agreement.  Every key of the store is "trace:" followed
\* by the trace_id of the record under it, GetTrace(id) returns no trace
\* whose trace_id differs from id, and GetTraces returns no two traces with
\* the same trace_id.
C34_KeyRecordAgreement ==
    /\ \A k \in DOMAIN store :
           LET u == Unmarshal(store[k]) IN
           /\ u.ok
           /\ ExtractTraceID(u.trace).ok
           /\ k = Prefix \o ExtractTraceID(u.trace).id
    /\ (ret.op = "GetTrace" /\ ret.ok)
           => (ExtractTraceID(ret.val).ok /\ ExtractTraceID(ret.val).id = ret.arg)
    /\ (ret.op = "GetTraces" /\ ret.ok)
           => \A i, j \in 1..Len(ret.val) :
                  (i # j) => ExtractTraceID(ret.val[i]).id # ExtractTraceID(ret.val[j]).id

-----------------------------------------------------------------------------
(* Stored bytes damaged outside the store *)

\* The record under key k no longer holds a JSON text
CorruptRecord(k) ==
    /\ store[k].kind = "json"
    /\ store' = Put(store, k, [kind |-> "garbage", len |-> store[k].len])
    /\ ret' = NoRet
    /\ UNCHANGED <<open, acked, overwrote, pc, pend, rd>>

\* One trace per id
PlainTraces == {MkTrace(Str(id), Spans(1), Absent) : id \in StoreIds}

NextCorrupt ==
    \/ \E trace \in PlainTraces : StoreTrace(trace)
    \/ \E id \in StoreIds : GetTrace(id)
    \/ \E limit \in 1..MaxLimit : GetTraces(limit)
    \/ GetStats
    \/ \E k \in DOMAIN store : CorruptRecord(k)

SpecCorrupt == Init /\ [][NextCorrupt]_vars

RECURSIVE DecodableTraces(_, _)
\* The traces of the records under keys that decode, in key order
DecodableTraces(db, keys) ==
    IF keys = <<>> THEN <<>>
    ELSE LET u == Unmarshal(db[Head(keys)]) IN
         (IF u.ok THEN <<u.trace>> ELSE <<>>) \o DecodableTraces(db, Tail(keys))

\* C8: corrupt-record tolerance.  GetTraces(limit) with a positive limit on an
\* open store skips the records that do not decode and returns the first limit
\* decodable traces without error.
C8_CorruptSkipped ==
    (ret.op = "GetTraces" /\ open /\ ret.arg > 0)
        => LET all == DecodableTraces(store, PrefixKeys(store)) IN
           /\ ret.ok
           /\ ret.val = SubSeq(all, 1, Min(ret.arg, Len(all)))

\* The record stored for id is present and is no JSON text
IsCorrupt(id) ==
    TraceKey(id) \in DOMAIN store /\ store[TraceKey(id)].kind # "json"

\* C9: GetTrace on an id whose stored bytes are corrupt fails with the
\* decoding error of json.Unmarshal; it neither reports not-found nor succeeds.
C9_CorruptGetFails ==
    (ret.op = "GetTrace" /\ open /\ IsCorrupt(ret.arg))
        => (~ret.ok /\ ret.err = "json: syntax error")

C9_Witness ==
    /\ ret.op = "GetTrace" /\ open /\ IsCorrupt(ret.arg)
    /\ ~ret.ok /\ ret.err # "trace not found"
    /\ Cardinality(DOMAIN store) = 3

RECURSIVE DecodedSpans(_)
\* The spans of a sequence of decoded traces, summed
DecodedSpans(traces) ==
    IF traces = <<>> THEN 0
    ELSE SpanCount(Head(traces)) + DecodedSpans(Tail(traces))

RECURSIVE DecodedBytes(_, _)
\* The byte lengths of the records under keys that decode, summed
DecodedBytes(db, keys) ==
    IF keys = <<>> THEN 0
    ELSE (IF Unmarshal(db[Head(keys)]).ok THEN db[Head(keys)].len ELSE 0)
         + DecodedBytes(db, Tail(keys))

\* C28: whenever GetStats returns a result, total_traces, total_spans and the
\* size total are those of the records that decode; a record whose bytes do
\* not decode adds to none of them (GetStats then returns an error and no
\* result).
C28_StatsCountDecoded ==
    (ret.op = "GetStats" /\ ret.ok)
        => LET keys == PrefixKeys(store)
               all == DecodableTraces(store, keys)
           IN  /\ ret.val.total_traces = Len(all)
               /\ ret.val.total_spans = DecodedSpans(all)
               /\ ret.val.storage_size = StorageSizeStr(DecodedBytes(store, keys))

\* GetStats ran over a store with a record that does not decode and two that do
C28_Witness ==
    /\ ret.op = "GetStats" /\ open
    /\ \E id \in StoreIds : IsCorrupt(id)
    /\ Len(DecodableTraces(store, PrefixKeys(store))) = 2
    /\ ~ret.ok /\ ret.val = <<>>

\* C33: GetTrace, GetTraces and GetStats are read-only.  A step of one of
\* them, failing or not, leaves every record and its bytes as they were.
C33_ReadsAreReadOnly ==
    [][(ret'.op \in {"GetTrace", "GetTraces", "GetStats"}) => store' = store]_vars

\* A listing failed on a record that does not decode, and the record is there
C33_Witness ==
    /\ ret.op = "GetTraces" /\ ~ret.ok
    /\ \E id \in StoreIds : IsCorrupt(id)

-----------------------------------------------------------------------------
(* Concurrent callers: NWorkers goroutines each run one StoreTrace, a reader *)
(* runs GetStats.  A Badger transaction applies its writes at its commit;   *)
(* a read transaction reads the database as of its start.                   *)

ConcIds == {<<96 + i>> : i \in Workers}

ConcTraces ==
    {MkTrace(Str(id), Spans(n), Absent) : id \in ConcIds, n \in 0..1}
    \cup {MkTrace(Absent, Spans(1), Absent)}

\* Worker w enters StoreTrace(trace): the id check and json.Marshal
Call(w, trace) ==
    LET p == PrepareStore(trace) IN
    /\ pc[w] = "idle"
    /\ pend' = [pend EXCEPT ![w] = [trace |-> trace, id |-> p.id, key |-> p.key,
                                    data |-> p.data, ok |-> p.ok, err |-> p.err]]
    /\ pc' = [pc EXCEPT ![w] = IF p.ok THEN "marshalled" ELSE "done"]
    /\ UNCHANGED <<store, open, ret, acked, overwrote, rd>>

\* Mutant: the store holds a lock that keeps writers out while a read
\* transaction runs
TxnSet_Locked(w) ==
    /\ pc[w] = "marshalled"
    /\ rd.pc # "txn"
    /\ IF open
       THEN /\ pc' = [pc EXCEPT ![w] = "set"]
            /\ UNCHANGED pend
       ELSE /\ pc' = [pc EXCEPT ![w] = "done"]
            /\ pend' = [pend EXCEPT ![w].ok = FALSE, ![w].err = ErrDBClosed]
    /\ UNCHANGED <<store, open, ret, acked, overwrote, rd>>

\* Mutant: a read transaction takes a lock that it does not release when it
\* ends, and writers wait for the lock
TxnSet_LockLeaked(w) ==
    /\ pc[w] = "marshalled"
    /\ rd.pc = "idle"
    /\ IF open
       THEN /\ pc' = [pc EXCEPT ![w] = "set"]
            /\ UNCHANGED pend
       ELSE /\ pc' = [pc EXCEPT ![w] = "done"]
            /\ pend' = [pend EXCEPT ![w].ok = FALSE, ![w].err = ErrDBClosed]
    /\ UNCHANGED <<store, open, ret, acked, overwrote, rd>>

\* s.db.Update starts a transaction and runs txn.Set(key, data)
TxnSet(w) ==
    /\ pc[w] = "marshalled"
    /\ IF open
       THEN /\ pc' = [pc EXCEPT ![w] = "set"]
            /\ UNCHANGED pend
       ELSE /\ pc' = [pc EXCEPT ![w] = "done"]
            /\ pend' = [pend EXCEPT ![w].ok = FALSE, ![w].err = ErrDBClosed]
    /\ UNCHANGED <<store, open, ret, acked, overwrote, rd>>

\* Mutant: the bytes reach the key space in two parts, and the call returns
\* with the first part in place
TxnCommit_Torn(w) ==
    /\ pc[w] = "set"
    /\ store' = Put(store, pend[w].key,
                     [kind |-> "garbage", len |-> pend[w].data.len - 1])
    /\ pc' = [pc EXCEPT ![w] = "done"]
    /\ Acknowledge(pend[w].id, pend[w].trace)
    /\ UNCHANGED <<open, ret, pend, rd>>

\* Mutant: StoreTrace returns nil and the write is not applied
TxnCommit_NotApplied(w) ==
    /\ pc[w] = "set"
    /\ pc' = [pc EXCEPT ![w] = "done"]
    /\ Acknowledge(pend[w].id, pend[w].trace)
    /\ UNCHANGED <<store, open, ret, pend, rd>>

\* Mutant: the commit puts its record in place of the whole key space
TxnCommit_DropOthers(w) ==
    /\ pc[w] = "set"
    /\ store' = Put(<<>>, pend[w].key, pend[w].data)
    /\ pc' = [pc EXCEPT ![w] = "done"]
    /\ Acknowledge(pend[w].id, pend[w].trace)
    /\ UNCHANGED <<open, ret, pend, rd>>

\* The transaction commits and StoreTrace returns nil
TxnCommit(w) ==
    /\ pc[w] = "set"
    /\ store' = Put(store, pend[w].key, pend[w].data)
    /\ pc' = [pc EXCEPT ![w] = "done"]
    /\ Acknowledge(pend[w].id, pend[w].trace)
    /\ UNCHANGED <<open, ret, pend, rd>>

AllReturned == \A w \in Workers : pc[w] = "done"

\* GetStats enters s.db.View: the read transaction starts
StatsBegin ==
    /\ rd.pc \in {"idle", "done"}
    /\ rd' = [pc |-> "view", snap |-> store, afterAll |-> AllReturned]
    /\ UNCHANGED <<store, open, ret, acked, overwrote, pc, pend>>

\* GetStats scans what its transaction reads and returns
StatsReturn ==
    /\ rd.pc = "view"
    /\ rd' = [pc |-> "done", res |-> GetStatsResult(rd.snap, open),
              afterAll |-> rd.afterAll]
    /\ UNCHANGED <<store, open, ret, acked, overwrote, pc, pend>>

NextConc ==
    \/ \E w \in Workers, trace \in ConcTraces : Call(w, trace)
    \/ \E w \in Workers : TxnSet(w)
    \/ \E w \in Workers : TxnCommit(w)
    \/ StatsBegin
    \/ StatsReturn

SpecConc == Init /\ [][NextConc]_vars

\* Every worker's StoreTrace has returned success
AllStored == \A w \in Workers : pc[w] = "done" /\ pend[w].ok

DistinctIds == \A v, w \in Workers : v # w => pend[v].id # pend[w].id

\* C10: no lost writes.  Once NWorkers concurrent StoreTrace calls on distinct
\* ids have all returned success, GetTrace succeeds for each of the ids and a
\* GetStats started afterwards reports total_traces = NWorkers, whatever the
\* interleaving was.
C10_NoLostWrites ==
    (AllStored /\ DistinctIds)
        => /\ \A w \in Workers : GetTraceResult(store, open, pend[w].id).ok
           /\ (rd.pc = "done" /\ rd.afterAll)
                  => (rd.res.ok /\ rd.res.val.total_traces = NWorkers)

C10_Witness ==
    /\ AllStored /\ DistinctIds
    /\ rd.pc = "done" /\ rd.afterAll
    /\ rd.res.ok /\ rd.res.val.total_traces = NWorkers

-----------------------------------------------------------------------------
(* Two writers and one reader on a store that already holds records.  The   *)
(* reader runs GetTrace, GetTraces or GetStats inside one read transaction  *)
(* (s.db.View) and visits one key per step, so that commits of the writers  *)
(* fall between its steps.                                                  *)

Writers == {1, 2}

IdA == <<97>>
IdB == <<98>>
IdC == <<99>>

\* The traces held when the callers start: "a" without spans, "b" with two
HeldTraces == {MkTrace(Str(IdA), Spans(0), Absent), MkTrace(Str(IdB), Spans(2), Absent)}

RECURSIVE StoreAll(_, _)
\* The database after StoreTrace of every trace of S on db
StoreAll(db, S) ==
    IF S = {} THEN db
    ELSE LET t == CHOOSE x \in S : TRUE IN
         StoreAll(StoreTraceResult(db, TRUE, t).db, S \ {t})

InitScan ==
    /\ store = StoreAll(<<>>, HeldTraces)
    /\ open = TRUE
    /\ ret = NoRet
    /\ acked = [id \in {IdOf(t) : t \in HeldTraces} |->
                    CHOOSE t \in HeldTraces : IdOf(t) = id]
    /\ overwrote = {}
    /\ pc = [w \in Workers |-> "idle"]
    /\ pend = [w \in Workers |-> <<>>]
    /\ rd = [pc |-> "idle"]

\* The traces the two writers submit: two different traces on "a", one on "b"
\* and one on the new id "c"
RaceTraces ==
    {MkTrace(Str(IdA), Spans(1), Absent), MkTrace(Str(IdA), Spans(2), Absent),
     MkTrace(Str(IdB), Spans(0), Absent), MkTrace(Str(IdC), Spans(1), Absent)}

\* The calls of the reader
ReadCalls ==
    {[op |-> "GetTrace", arg |-> IdA], [op |-> "GetTrace", arg |-> IdC],
     [op |-> "GetTraces", arg |-> 1], [op |-> "GetTraces", arg |-> 3],
     [op |-> "GetStats", arg |-> <<>>]}

\* Mutant: the reads of a transaction see the database as it is now
TxnView_Live(snap, live) == live

\* What a read transaction sees: the database as of its start
TxnView(snap, live) == snap

\* The error the call op returns when its transaction fails with cause
ReadErr(op, cause) ==
    CASE op = "GetTrace" -> cause
      [] op = "GetTraces" -> TracesErr(cause)
      [] op = "GetStats" -> StatsErr(cause)

\* The reader enters s.db.View: the read transaction starts.  idleAtBegin and
\* ackedAtBegin record what the writers had done by then, raced whether a
\* writer has committed between the start and a later step of the reader.
ReadBegin(call) ==
    /\ rd.pc = "idle"
    /\ rd' = [pc |-> IF open THEN "txn" ELSE "done",
              op |-> call.op, arg |-> call.arg,
              snap |-> store,
              todo |-> IF call.op = "GetTrace" THEN <<>> ELSE PrefixKeys(store),
              traces |-> <<>>, totalTraces |-> 0, totalSpans |-> 0, storageSize |-> 0,
              res |-> IF open THEN [ok |-> TRUE, val |-> <<>>, err |-> ""]
                      ELSE [ok |-> FALSE, val |-> <<>>, err |-> ReadErr(call.op, ErrDBClosed)],
              idleAtBegin |-> {w \in Writers : pc[w] = "idle"},
              ackedAtBegin |-> DOMAIN acked,
              raced |-> FALSE]
    /\ UNCHANGED <<store, open, ret, acked, overwrote, pc, pend>>

\* The loop condition of the scan: it.Valid() (&& count < limit in GetTraces)
ScanContinues ==
    /\ rd.todo # <<>>
    /\ rd.op = "GetTraces" => Len(rd.traces) < rd.arg

\* One iteration of the loop of GetTraces or GetStats: item.Value, Unmarshal
ReadStep ==
    /\ rd.pc = "txn" /\ rd.op \in {"GetTraces", "GetStats"}
    /\ ScanContinues
    /\ LET val == TxnView(rd.snap, store)[Head(rd.todo)]
           u == Unmarshal(val)
           raced == rd.raced \/ store # rd.snap
       IN  rd' = IF ~u.ok
                 THEN [rd EXCEPT !.pc = "done",
                                 !.res = [ok |-> FALSE, val |-> <<>>,
                                          err |-> ReadErr(rd.op, u.err)],
                                 !.raced = raced]
                 ELSE IF rd.op = "GetTraces"
                 THEN [rd EXCEPT !.todo = Tail(rd.todo),
                                 !.traces = Append(rd.traces, u.trace),
                                 !.raced = raced]
                 ELSE [rd EXCEPT !.todo = Tail(rd.todo),
                                 !.raced = raced,
                                 !.totalTraces = rd.totalTraces + 1,
                                 !.totalSpans = rd.totalSpans + SpanCount(u.trace),
                                 !.storageSize = rd.storageSize + val.len]
    /\ UNCHANGED <<store, open, ret, acked, overwrote, pc, pend>>

\* The read transaction ends and the call returns
ReadReturn ==
    /\ rd.pc = "txn"
    /\ rd.op = "GetTrace" \/ ~ScanContinues
    /\ rd' = [rd EXCEPT
                !.pc = "done",
                !.raced = rd.raced \/ store # rd.snap,
                !.res = CASE rd.op = "GetTrace" ->
                               GetTraceResult(TxnView(rd.snap, store), TRUE, rd.arg)
                          [] rd.op = "GetTraces" ->
                               [ok |-> TRUE, val |-> rd.traces, err |-> ""]
                          [] rd.op = "GetStats" ->
                               [ok |-> TRUE,
                                val |-> [total_traces |-> rd.totalTraces,
                                         total_spans |-> rd.totalSpans,
                                         storage_size |-> StorageSizeStr(rd.storageSize)],
                                err |-> ""]]
    /\ UNCHANGED <<store, open, ret, acked, overwrote, pc, pend>>

\* Close as Start calls it: after the HTTP server has shut down, so with no
\* store call in flight
CloseQuiet ==
    /\ \A w \in Writers : pc[w] \in {"idle", "done"}
    /\ rd.pc \in {"idle", "done"}
    /\ Close

NextScan ==
    \/ \E w \in Writers, trace \in RaceTraces : Call(w, trace)
    \/ \E w \in Writers : TxnSet(w)
    \/ \E w \in Writers : TxnCommit(w)
    \/ \E call \in ReadCalls : ReadBegin(call)
    \/ ReadStep
    \/ ReadReturn
    \/ CloseQuiet

SpecScan == InitScan /\ [][NextScan]_vars

-----------------------------------------------------------------------------
(* Properties of the two writers and the reader *)

\* Writer w's StoreTrace on id has returned success
Stored(w, id) == pc[w] = "done" /\ pend[w].ok /\ pend[w].id = id

\* The trace held for id when the callers started
HeldTrace(id) == CHOOSE t \in HeldTraces : IdOf(t) = id

\* The complete traces written for id so far, as json.Unmarshal gives them back
WrittenTraces(id) ==
    {Decoded(HeldTrace(id)) : x \in {y \in {id} : \E t \in HeldTraces : IdOf(t) = y}}
    \cup {Decoded(pend[w].trace) : w \in {v \in Writers : Stored(v, id)}}

\* C11: per-key atomicity.  Once two racing StoreTrace calls on one id have
\* both returned success, the record stored for the id is exactly the bytes of
\* one of the two traces; and every GetTrace on the id, during the race or
\* after it, returns one complete trace written for the id before, never a
\* mixture of two.
C11_PerKeyAtomicity ==
    /\ \A id \in {IdA, IdB, IdC} :
           (\A w \in Writers : Stored(w, id))
               => store[TraceKey(id)] \in {pend[w].data : w \in Writers}
    /\ (rd.pc = "done" /\ rd.op = "GetTrace" /\ rd.res.ok)
           => rd.res.val \in WrittenTraces(rd.arg)

\* Both writers stored different traces on "a", and a GetTrace("a") that
\* started while both were in flight returned the trace of one of them
C11_Witness ==
    /\ \A w \in Writers : Stored(w, IdA)
    /\ pend[1].trace # pend[2].trace
    /\ rd.pc = "done" /\ rd.op = "GetTrace" /\ rd.arg = IdA
    /\ rd.idleAtBegin = {}
    /\ rd.res.ok /\ rd.res.val = Decoded(pend[2].trace)
    /\ store[TraceKey(IdA)] = pend[1].data

\* The listing holds a trace whose trace_id is id
Lists(traces, id) ==
    \E i \in 1..Len(traces) : ExtractTraceID(traces[i]) = [ok |-> TRUE, id |-> id]

\* C12 as stated: once StoreTrace on id x has returned success, every
\* GetTrace(x), GetTraces and GetStats issued afterwards observes a record
\* for x.
C12_ReadYourWrites ==
    rd.pc = "done" =>
        \A x \in rd.ackedAtBegin :
            /\ (rd.op = "GetTrace" /\ rd.arg = x) => rd.res.ok
            /\ rd.op = "GetTraces" => (rd.res.ok /\ Lists(rd.res.val, x))
            /\ rd.op = "GetStats"
                   => (rd.res.ok
                       /\ rd.res.val.total_traces >= Cardinality(rd.ackedAtBegin))

\* C12 amended: once StoreTrace on id x has returned success and while the
\* store is open, every GetTrace(x) and GetStats issued afterwards observes a
\* record for x, and so does every GetTraces issued afterwards whose limit is
\* at least the number of records stored when it is issued.
C12_ReadYourWritesWithinLimit ==
    (rd.pc = "done" /\ open) =>
        \A x \in rd.ackedAtBegin :
            /\ (rd.op = "GetTrace" /\ rd.arg = x)
                   => (rd.res.ok /\ ExtractTraceID(rd.res.val).id = x)
            /\ (rd.op = "GetTraces" /\ rd.arg >= Cardinality(rd.ackedAtBegin))
                   => (rd.res.ok /\ Lists(rd.res.val, x))
            /\ rd.op = "GetStats"
                   => (rd.res.ok
                       /\ rd.res.val.total_traces >= Cardinality(rd.ackedAtBegin))

\* A GetTraces(3) issued after StoreTrace on the new id "c" had returned,
\* while the other writer was in flight, lists "c"
C12_Witness ==
    /\ rd.pc = "done" /\ rd.op = "GetTraces" /\ rd.arg = 3
    /\ IdC \in rd.ackedAtBegin
    /\ \E w \in Writers : w \notin rd.idleAtBegin /\ ~Stored(w, pend[w].id)
    /\ rd.res.ok /\ Lists(rd.res.val, IdC)

-----------------------------------------------------------------------------
(* The process that owns the store ends, by a crash or after Close, and a   *)
(* new one opens the store on the same directory.                           *)

\* Mutant: opts.InMemory is set, and the directory holds nothing
OnDisk_InMemory(db) == <<>>

\* What the directory holds of the key space db: NewBadgerStore opens the DB
\* with badger.DefaultOptions(dir), so on disk, and a commit returns after its
\* entries were written to the write-ahead log that badger.Open replays
OnDisk(db) == db

\* The process ends without Close
Crash ==
    /\ open
    /\ open' = FALSE
    /\ store' = OnDisk(store)
    /\ ret' = [op |-> "Crash", arg |-> <<>>, ok |-> TRUE, val |-> <<>>, err |-> ""]
    /\ UNCHANGED <<acked, overwrote, pc, pend, rd>>

\* Mutant: NewBadgerStore opens an empty directory
Reopen_EmptyDir ==
    /\ ~open
    /\ ret.op \in {"Crash", "Close"}
    /\ open' = TRUE
    /\ store' = <<>>
    /\ ret' = [op |-> "Reopen", arg |-> ret.op, ok |-> TRUE, val |-> <<>>, err |-> ""]
    /\ UNCHANGED <<acked, overwrote, pc, pend, rd>>

\* NewBadgerStore on the directory of a store that is no longer open; arg
\* records how that store went down
Reopen ==
    /\ ~open
    /\ ret.op \in {"Crash", "Close"}
    /\ open' = TRUE
    /\ ret' = [op |-> "Reopen", arg |-> ret.op, ok |-> TRUE, val |-> <<>>, err |-> ""]
    /\ UNCHANGED <<store, acked, overwrote, pc, pend, rd>>

NextCrash ==
    \/ open /\ \E trace \in PlainTraces : StoreTrace(trace)
    \/ open /\ \E id \in QueryIds : GetTrace(id)
    \/ open /\ \E limit \in 1..MaxLimit : GetTraces(limit)
    \/ open /\ GetStats
    \/ open /\ Close
    \/ Crash
    \/ Reopen

SpecCrash == Init /\ [][NextCrash]_vars

\* Every acknowledged trace is retrievable from db
AllRetrievable(db) ==
    \A id \in DOMAIN acked :
        LET r == GetTraceResult(db, TRUE, id) IN
        r.ok /\ r.val = Decoded(acked[id])

\* C13: durability.  A record whose StoreTrace returned success is still
\* retrievable after the process crashed and the store was reopened on the
\* same directory: right after the reopen, and by every GetTrace from then on.
C13_DurableOnceAcknowledged ==
    /\ (ret.op = "Reopen" /\ ret.arg = "Crash") => AllRetrievable(store)
    /\ (open /\ ret.op = "GetTrace" /\ ret.arg \in DOMAIN acked)
           => (ret.ok /\ ret.val = Decoded(acked[ret.arg]))

\* Three records were acknowledged, the process crashed, and the reopened
\* store holds the three
C13_Witness ==
    /\ ret.op = "Reopen" /\ ret.arg = "Crash"
    /\ Cardinality(DOMAIN acked) = 3
    /\ AllRetrievable(store)

\* C35: records survive a clean close and reopen.  Right after Close and a
\* NewBadgerStore on the same directory, GetTrace returns every acknowledged
\* trace and GetStats the totals of the acknowledged traces.
C35_SurvivesCloseReopen ==
    (ret.op = "Reopen" /\ ret.arg = "Close")
        => /\ AllRetrievable(store)
           /\ LET st == GetStatsResult(store, open) IN
              /\ st.ok
              /\ st.val.total_traces = Cardinality(DOMAIN acked)
              /\ st.val.total_spans =
                     SumSet(DOMAIN acked, [id \in DOMAIN acked |-> InputSpanLen(acked[id])])

\* Two records were acknowledged, the store was closed and opened again
C35_Witness ==
    /\ ret.op = "Reopen" /\ ret.arg = "Close" /\ open
    /\ Cardinality(DOMAIN acked) = 2
    /\ Cardinality(DOMAIN store) = 2

-----------------------------------------------------------------------------
(* Records large enough for the stored bytes to show in storage_size, which *)
(* GetStats reports in MB with two decimals.                                *)

\* A string of BigSpans letters
LongStr == Str([i \in 1..BigSpans |-> 97])

\* A span with three string fields
BigSpan == Map([span_id |-> LongStr, name |-> LongStr, trace_id |-> LongStr])

\* Per id a trace without spans and one with BigSpans such spans, whose
\* record is over 2000 bytes; three of them together exceed 0.005 MB
SizeTraces ==
    {MkTrace(Str(id), Spans(0), Absent) : id \in StoreIds}
    \cup {MkTrace(Str(id), List([i \in 1..BigSpans |-> BigSpan]), Absent) : id \in StoreIds}

NextSize ==
    \/ \E trace \in SizeTraces : StoreTrace(trace)
    \/ GetStats

SpecSize == Init /\ [][NextSize]_vars

\* The sum of the byte lengths of the stored records
StoredBytes == SumSet(DOMAIN store, [k \in DOMAIN store |-> store[k].len])

-----------------------------------------------------------------------------
(* Scans that run while writers commit *)

\* The reader's call as one step on the database db
WholeResult(op, arg, db) ==
    CASE op = "GetTrace" -> GetTraceResult(db, TRUE, arg)
      [] op = "GetTraces" -> GetTracesResult(db, TRUE, arg)
      [] op = "GetStats" -> GetStatsResult(db, TRUE)

\* C19: scan snapshot consistency.  A GetTraces or GetStats that runs while
\* StoreTrace calls commit returns the result the call gives on one store
\* state that existed between its invocation and its return: the state at the
\* start of its read transaction.
C19_ScanSnapshot ==
    (rd.pc = "done" /\ rd.op \in {"GetTraces", "GetStats"} /\ ~IsClosedErr(rd.res.err))
        => rd.res = WholeResult(rd.op, rd.arg, rd.snap)

\* A GetStats returned the counts of the state it started on, after a writer
\* had committed between its start and one of its steps
C19_Witness ==
    /\ rd.pc = "done" /\ rd.op = "GetStats" /\ rd.res.ok
    /\ rd.raced
    /\ rd.res = WholeResult(rd.op, rd.arg, rd.snap)
    /\ rd.res # WholeResult(rd.op, rd.arg, store)

\* C20: readers and writers do not exclude each other.  While a scan is in
\* progress every step of a StoreTrace can be taken, the first and the last
\* included; and while a StoreTrace is in progress a scan can start, take its
\* next step and return.
C20_NoExclusion ==
    /\ rd.pc = "txn" =>
           \A w \in Writers :
               /\ pc[w] = "idle" => \A trace \in RaceTraces : ENABLED Call(w, trace)
               /\ pc[w] = "marshalled" => ENABLED TxnSet(w)
               /\ pc[w] = "set" => ENABLED TxnCommit(w)
    /\ (\E w \in Writers : pc[w] \in {"marshalled", "set"}) =>
           /\ rd.pc = "idle" => \A call \in ReadCalls : ENABLED ReadBegin(call)
           /\ rd.pc = "txn" => ENABLED (ReadStep \/ ReadReturn)

\* A scan is in progress, and a StoreTrace that started after the scan did
\* has returned success
C20_Witness ==
    /\ rd.pc = "txn" /\ rd.op \in {"GetTraces", "GetStats"}
    /\ \E w \in rd.idleAtBegin : Stored(w, pend[w].id) /\ store # rd.snap

-----------------------------------------------------------------------------
(* The persistence layer may fail.  io is the outcome the layer would give  *)
(* to the first and to a second attempt at the transaction of one call;     *)
(* attempts is the number of db.View / db.Update calls the store call made. *)

IOOutcomes == {<<a, b>> : a \in {"ok", "fail"}, b \in {"ok", "fail"}}

\* Mutant: GetTrace runs its transaction again when it failed
GetTraceIO_Retry(db, isOpen, id, io) ==
    IF isOpen /\ io[1] = "fail" /\ io[2] = "fail"
    THEN [ok |-> FALSE, val |-> <<>>, err |-> ErrIO, attempts |-> 2]
    ELSE GetTraceResult(db, isOpen, id)
         @@ [attempts |-> IF isOpen /\ io[1] = "fail" THEN 2 ELSE 1]

\* GetTrace: one s.db.View; its error is returned as it is
GetTraceIO(db, isOpen, id, io) ==
    IF isOpen /\ io[1] = "fail"
    THEN [ok |-> FALSE, val |-> <<>>, err |-> ErrIO, attempts |-> 1]
    ELSE GetTraceResult(db, isOpen, id) @@ [attempts |-> 1]

\* GetTraces: one s.db.View; its error is wrapped and returned
GetTracesIO(db, isOpen, limit, io) ==
    IF isOpen /\ io[1] = "fail"
    THEN [ok |-> FALSE, val |-> <<>>, err |-> TracesErr(ErrIO), attempts |-> 1]
    ELSE GetTracesResult(db, isOpen, limit) @@ [attempts |-> 1]

\* GetStats: one s.db.View; its error is wrapped and returned
GetStatsIO(db, isOpen, io) ==
    IF isOpen /\ io[1] = "fail"
    THEN [ok |-> FALSE, val |-> <<>>, err |-> StatsErr(ErrIO), attempts |-> 1]
    ELSE GetStatsResult(db, isOpen) @@ [attempts |-> 1]

\* The s.db.Update of StoreTrace, given p, what the id check and json.Marshal
\* produced, and r, the result when the device works
UpdateIO(db, isOpen, io, p, r) ==
    IF ~p.ok
    THEN r @@ [attempts |-> 0]
    ELSE IF isOpen /\ io[1] = "fail"
    THEN [ok |-> FALSE, err |-> ErrIO, id |-> p.id, db |-> db, attempts |-> 1]
    ELSE r @@ [attempts |-> 1]

\* StoreTrace: one s.db.Update, reached when the id check and json.Marshal
\* passed; its error is returned as it is and nothing is written
StoreTraceIO(db, isOpen, trace, io) ==
    UpdateIO(db, isOpen, io, PrepareStore(trace),
             StoreTraceResult(db, isOpen, trace))

StoreTraceFaulty(trace, io) ==
    \E r \in {StoreTraceIO(store, open, trace, io)} :
        /\ store' = r.db
        /\ ret' = [op |-> "StoreTrace", arg |-> trace, ok |-> r.ok, val |-> <<>>,
                   err |-> r.err, io |-> io, attempts |-> r.attempts]
        /\ IF r.ok THEN Acknowledge(r.id, trace) ELSE UNCHANGED <<acked, overwrote>>
        /\ UNCHANGED <<open, pc, pend, rd>>

GetTraceFaulty(id, io) ==
    /\ ret' = [op |-> "GetTrace", arg |-> id, io |-> io]
              @@ GetTraceIO(store, open, id, io)
    /\ UNCHANGED <<store, open, acked, overwrote, pc, pend, rd>>

GetTracesFaulty(limit, io) ==
    /\ ret' = [op |-> "GetTraces", arg |-> limit, io |-> io]
              @@ GetTracesIO(store, open, limit, io)
    /\ UNCHANGED <<store, open, acked, overwrote, pc, pend, rd>>

GetStatsFaulty(io) ==
    /\ ret' = [op |-> "GetStats", arg |-> <<>>, io |-> io]
              @@ GetStatsIO(store, open, io)
    /\ UNCHANGED <<store, open, acked, overwrote, pc, pend, rd>>

\* A trace per id, and one without trace_id
FaultyTraces == PlainTraces \cup {MkTrace(Absent, Spans(1), Absent)}

NextIO ==
    \/ \E trace \in FaultyTraces : \E io \in IOOutcomes : StoreTraceFaulty(trace, io)
    \/ \E id \in StoreIds : \E io \in IOOutcomes : GetTraceFaulty(id, io)
    \/ \E io \in IOOutcomes : GetTracesFaulty(MaxLimit, io)
    \/ \E io \in IOOutcomes : GetStatsFaulty(io)
    \/ Close

SpecIO == Init /\ [][NextIO]_vars

\* The error is the error of the persistence layer, bare or wrapped
IsIOErr(err) == err \in {ErrIO, TracesErr(ErrIO), StatsErr(ErrIO)}

\* C21: persistence-layer failures are surfaced and never retried.  Every
\* store call makes at most one attempt at its transaction, and when that
\* attempt fails the call returns the layer's error, never a success value.
C21_SurfacedNotRetried ==
    (ret.op \in StoreCalls)
        => /\ ret.attempts <= 1
           /\ (open /\ ret.attempts = 1 /\ ret.io[1] = "fail")
                  => (~ret.ok /\ IsIOErr(ret.err))

\* GetTrace on a stored id met a failure that a second attempt would not have
\* met, and returned the error
C21_Witness ==
    /\ ret.op = "GetTrace" /\ open
    /\ ret.arg \in DOMAIN acked
    /\ ret.io = <<"fail", "ok">>
    /\ ret.attempts = 1 /\ ~ret.ok /\ ret.err = ErrIO

-----------------------------------------------------------------------------
(* What a StoreTrace leaves alone *)

\* C25: StoreTrace on id x leaves the record of every other id unchanged,
\* alone or racing with other StoreTrace calls: whenever a step changes what
\* GetTrace(y) returns, the step is the commit of a StoreTrace on y.
C25_OtherIdsUnchanged ==
    [][\A y \in {IdA, IdB, IdC} :
           GetTraceResult(store', TRUE, y) # GetTraceResult(store, TRUE, y)
               => \E w \in Writers :
                      pc[w] = "set" /\ pc'[w] = "done" /\ pend[w].id = y]_vars

\* StoreTrace calls on "a" and on "c" raced and both returned success; the
\* record of "b" is the one held before
C25_Witness ==
    /\ Stored(1, IdA) /\ Stored(2, IdC)
    /\ rd.pc = "idle"
    /\ GetTraceResult(store, TRUE, IdB).val = Decoded(HeldTrace(IdB))
    /\ GetTraceResult(store, TRUE, IdA).val # Decoded(HeldTrace(IdA))

-----------------------------------------------------------------------------
(* Progress of the calls.  Each call runs on a goroutine of its own, which  *)
(* the Go scheduler keeps running: a step that stays possible is taken.     *)

FairScan ==
    /\ \A w \in Writers : WF_vars(TxnSet(w)) /\ WF_vars(TxnCommit(w))
    /\ WF_vars(ReadStep)
    /\ WF_vars(ReadReturn)

SpecScanLive == SpecScan /\ FairScan

\* C23: every store call that is invoked returns.  A StoreTrace that has
\* entered returns, and a GetTrace, GetTraces or GetStats whose transaction
\* has started returns, whatever the other callers do meanwhile.
C23_EveryCallReturns ==
    /\ \A w \in Writers : (pc[w] \in {"marshalled", "set"}) ~> (pc[w] = "done")
    /\ (rd.pc = "txn") ~> (rd.pc = "done")

\* Both writers and a GetStats that ran while a writer committed have returned
C23_Witness ==
    /\ \A w \in Writers : pc[w] = "done" /\ pend[w].ok
    /\ rd.pc = "done" /\ rd.op = "GetStats" /\ rd.raced

-----------------------------------------------------------------------------
(* The server process.  Start opens the store, serves HTTP requests on      *)
(* handler goroutines, and on SIGINT or SIGTERM shuts the HTTP server down, *)
(* stops the gRPC server and closes the store.  In this part pc maps the    *)
(* goroutine "main" and each handler goroutine to its position, pend holds  *)
(* the request a handler is serving, ret the last response written.         *)

Handlers == {"h1", "h2"}

Goroutines == {"main"} \cup Handlers

NoRequest == [route |-> "none", id |-> <<>>, body |-> <<>>]

\* The bodies posted to /api/v1/traces: a trace, a map without trace_id, and
\* bytes that are no JSON text
PostBodies ==
    {Marshal(MkTrace(Str(IdA), Spans(1), Absent)).data,
     Marshal(MkTrace(Absent, Spans(1), Absent)).data,
     [kind |-> "garbage", len |-> 1]}

\* The requests the router dispatches to the four API handlers
Requests ==
    {[route |-> "StoreTrace", id |-> <<>>, body |-> b] : b \in PostBodies}
    \cup {[route |-> "GetTrace", id |-> IdA, body |-> <<>>],
          [route |-> "GetTraces", id |-> <<>>, body |-> <<>>],
          [route |-> "GetStats", id |-> <<>>, body |-> <<>>]}

InitServer ==
    /\ store = <<>>
    /\ open = TRUE
    /\ ret = NoRet
    /\ acked = <<>>
    /\ overwrote = {}
    /\ pc = [g \in Goroutines |-> IF g = "main" THEN "serving" ELSE "idle"]
    /\ pend = [h \in Handlers |-> NoRequest]
    /\ rd = [pc |-> "idle"]

\* c.JSON: the status and the outcome r of the store call the handler made
Answer(op, arg, r, failStatus) ==
    [status |-> IF r.ok THEN 200 ELSE failStatus, op |-> op, arg |-> arg] @@ r

\* c.ShouldBindJSON(&trace)
ShouldBindJSON(body) == Unmarshal(body)

\* Mutant: the acknowledgement is sent whatever StoreTrace returned
StoreBound_AckOnFailure(db, isOpen, b) ==
    IF ~b.ok
    THEN [status |-> 400, op |-> "none", arg |-> <<>>, ok |-> FALSE,
          val |-> <<>>, err |-> b.err, id |-> <<>>, db |-> db]
    ELSE Answer("StoreTrace", b.trace,
                StoreTraceResult(db, isOpen, b.trace) @@ [val |-> <<>>], 200)

\* handleStoreTrace once the body was bound to b: 400 when it did not bind,
\* 500 when StoreTrace fails, 200 otherwise
StoreBound(db, isOpen, b) ==
    IF ~b.ok
    THEN [status |-> 400, op |-> "none", arg |-> <<>>, ok |-> FALSE,
          val |-> <<>>, err |-> b.err, id |-> <<>>, db |-> db]
    ELSE Answer("StoreTrace", b.trace,
                StoreTraceResult(db, isOpen, b.trace) @@ [val |-> <<>>], 500)

HandleStoreTrace(db, isOpen, body) == StoreBound(db, isOpen, ShouldBindJSON(body))

\* handleGetTrace: 404 "trace not found" on any error of GetTrace
HandleGetTrace(db, isOpen, id) ==
    [Answer("GetTrace", id, GetTraceResult(db, isOpen, id), 404)
        EXCEPT !.err = IF @ = "" THEN "" ELSE "trace not found"]
    @@ [id |-> id, db |-> db]

\* The limit handleGetTraces passes to GetTraces
ListLimit == 100

\* Mutant: the handler asks for every record
HandleGetTraces_NoLimit(db, isOpen) ==
    Answer("GetTraces", ListLimit,
           GetTracesResult(db, isOpen, Cardinality(DOMAIN db)), 500)
    @@ [id |-> <<>>, db |-> db]

\* handleGetTraces: GetTraces with limit 100, 500 on error
HandleGetTraces(db, isOpen) ==
    Answer("GetTraces", ListLimit, GetTracesResult(db, isOpen, ListLimit), 500)
    @@ [id |-> <<>>, db |-> db]

\* handleGetStats: 500 on error
HandleGetStats(db, isOpen) ==
    Answer("GetStats", <<>>, GetStatsResult(db, isOpen), 500)
    @@ [id |-> <<>>, db |-> db]

\* The routes of setupRoutes
Respond(req, db, isOpen) ==
    CASE req.route = "StoreTrace" -> HandleStoreTrace(db, isOpen, req.body)
      [] req.route = "GetTrace" -> HandleGetTrace(db, isOpen, req.id)
      [] req.route = "GetTraces" -> HandleGetTraces(db, isOpen)
      [] req.route = "GetStats" -> HandleGetStats(db, isOpen)

\* ListenAndServe accepts a request and starts its handler goroutine; it
\* accepts nothing once Shutdown has closed the listener
Accept(h, req) ==
    /\ pc["main"] = "serving"
    /\ pc[h] = "idle"
    /\ pc' = [pc EXCEPT ![h] = "running"]
    /\ pend' = [pend EXCEPT ![h] = req]
    /\ UNCHANGED <<store, open, ret, acked, overwrote, rd>>

\* The handler of the request runs to its response, unless the process has
\* ended
Serve(h) ==
    /\ pc["main"] # "exited"
    /\ pc[h] = "running"
    /\ \E r \in {Respond(pend[h], store, open)} :
       /\ store' = r.db
       /\ ret' = [op |-> r.op, arg |-> r.arg, ok |-> r.ok, val |-> r.val,
                  err |-> r.err, status |-> r.status, by |-> h]
       /\ IF r.op = "StoreTrace" /\ r.ok
          THEN Acknowledge(r.id, r.arg)
          ELSE UNCHANGED <<acked, overwrote>>
    /\ pc' = [pc EXCEPT ![h] = "idle"]
    /\ pend' = [pend EXCEPT ![h] = NoRequest]
    /\ UNCHANGED <<open, rd>>

\* <-quit: the signal arrives and Start calls server.http.Shutdown(ctx)
Signal ==
    /\ pc["main"] = "serving"
    /\ pc' = [pc EXCEPT !["main"] = "shutdown"]
    /\ UNCHANGED <<store, open, ret, acked, overwrote, pend, rd>>

\* Shutdown returns nil: every connection is idle
ShutdownDrained ==
    /\ pc["main"] = "shutdown"
    /\ \A h \in Handlers : pc[h] = "idle"
    /\ pc' = [pc EXCEPT !["main"] = "stop"]
    /\ UNCHANGED <<store, open, ret, acked, overwrote, pend, rd>>

\* Shutdown returns the error of ctx after 30 seconds while a handler is
\* still running; Start logs the error and goes on
ShutdownTimeout ==
    /\ pc["main"] = "shutdown"
    /\ \E h \in Handlers : pc[h] = "running"
    /\ pc' = [pc EXCEPT !["main"] = "stop"]
    /\ UNCHANGED <<store, open, ret, acked, overwrote, pend, rd>>

\* server.grpc.Stop(): GracefulStop returns; no registered service uses the store
GrpcStop ==
    /\ pc["main"] = "stop"
    /\ pc' = [pc EXCEPT !["main"] = "close"]
    /\ UNCHANGED <<store, open, ret, acked, overwrote, pend, rd>>

\* server.storage.Close(); its error is only logged
StorageClose ==
    /\ pc["main"] = "close"
    /\ open' = FALSE
    /\ pc' = [pc EXCEPT !["main"] = "closed"]
    /\ UNCHANGED <<store, ret, acked, overwrote, pend, rd>>

\* Start returns nil to the serve command and the process ends, and with it
\* every handler goroutine
Exit ==
    /\ pc["main"] = "closed"
    /\ pc' = [pc EXCEPT !["main"] = "exited"]
    /\ UNCHANGED <<store, open, ret, acked, overwrote, pend, rd>>

NextServer ==
    \/ \E h \in Handlers : \E req \in Requests : Accept(h, req)
    \/ \E h \in Handlers : Serve(h)
    \/ Signal
    \/ ShutdownDrained
    \/ ShutdownTimeout
    \/ GrpcStop
    \/ StorageClose
    \/ Exit
    \/ \E k \in DOMAIN store : CorruptRecord(k)

SpecServer == InitServer /\ [][NextServer]_vars

\* Handler h writes its response in this step
Responds(h) == pc[h] = "running" /\ pc'[h] = "idle"

\* C29: shutdown ordering.  The store is closed once per run, by Start after
\* Shutdown and Stop have returned, Start returns with the store closed, and
\* no handler issues a store operation once Close has begun.
C29_ShutdownOrdering ==
    [][/\ (open /\ ~open') => (pc["main"] = "close" /\ pc'["main"] = "closed")
       /\ (pc'["main"] \in {"closed", "exited"}) => ~open'
       /\ \A h \in Handlers : (Responds(h) /\ ret'.op # "none") => open]_vars

\* C30: the get-trace handler answers 404 exactly when the store holds no
\* record for the requested id, and answers a GetTrace failure of another
\* kind with a 500-class status.
C30_NotFoundOnlyWhenMissing ==
    [][\A h \in Handlers :
          (Responds(h) /\ pend[h].route = "GetTrace")
              => /\ (ret'.status = 404) <=> (LookupKey(pend[h].id) \notin DOMAIN store)
                 /\ (~ret'.ok /\ LookupKey(pend[h].id) \in DOMAIN store)
                        => ret'.status >= 500]_vars

\* The body of the request binds and StoreTrace on the bound trace succeeds
StoreSucceeds(body, db, isOpen) ==
    /\ Unmarshal(body).ok
    /\ StoreTraceResult(db, isOpen, Unmarshal(body).trace).ok

\* C31: the store handler answers 200 only when StoreTrace returned success,
\* the record then being in the store; when the body does not parse it
\* answers 400, when StoreTrace fails 500, and the store is as before.
C31_AckOnlyAfterStored ==
    [][\A h \in Handlers :
          (Responds(h) /\ pend[h].route = "StoreTrace")
              => IF StoreSucceeds(pend[h].body, store, open)
                 THEN /\ ret'.status = 200
                      /\ \E k \in DOMAIN store' : store'[k] = pend[h].body
                 ELSE /\ ret'.status = IF Unmarshal(pend[h].body).ok THEN 500 ELSE 400
                      /\ store' = store]_vars

\* The handler acknowledged a trace, which is in the store
C31_Witness ==
    /\ ret.op = "StoreTrace" /\ "status" \in DOMAIN ret /\ ret.status = 200
    /\ LookupKey(IdA) \in DOMAIN store

-----------------------------------------------------------------------------
(* The second storage package of the source: a BadgerStore over the same    *)
(* directory whose reads return mock data.  It has no StoreTrace; the       *)
(* records it finds were written by the persisting store in earlier runs.   *)

\* The hours time.Now() shows
Clock == {1, 2}

\* time.Now().Add(-time.Hour).Format(time.RFC3339), as the digit of the hour
MockStartTime(now) == Str(<<48 + now - 1>>)

\* The map literal of the mock variant; its id is under "id", not "trace_id"
MockTrace(id, now) ==
    [id |-> Str(id),
     name |-> Str(<<116, 101, 115, 116, 45, 116, 114, 97, 99, 101>>),
     start_time |-> MockStartTime(now),
     status |-> Str(<<111, 107>>),
     spans |-> List(<<>>)]

\* Mutant: the mock GetTrace looks the id up
MockGetTraceResult_Lookup(db, isOpen, id, now) ==
    IF LookupKey(id) \in DOMAIN db
    THEN [ok |-> TRUE, val |-> MockTrace(id, now), err |-> ""]
    ELSE [ok |-> FALSE, val |-> <<>>, err |-> "trace not found"]

\* GetTrace of the mock variant: no access to the database
MockGetTraceResult(db, isOpen, id, now) ==
    [ok |-> TRUE, val |-> MockTrace(id, now), err |-> ""]

\* GetTraces of the mock variant: one mock trace, "trace-0", when the scan
\* meets a key that is exactly "trace:"; count only grows on such a key
MockGetTracesResult(db, isOpen, limit, now) ==
    IF ~isOpen
    THEN [ok |-> FALSE, val |-> <<>>, err |-> TracesErr(ErrDBClosed)]
    ELSE IF limit > 0 /\ ScanPrefix \in DOMAIN db
    THEN [ok |-> TRUE, val |-> <<MockTrace(<<116, 114, 97, 99, 101, 45, 48>>, now)>>,
          err |-> ""]
    ELSE [ok |-> TRUE, val |-> <<>>, err |-> ""]

\* GetStats of the mock variant
MockGetStatsResult(db, isOpen) ==
    [ok |-> TRUE,
     val |-> [total_traces |-> 0, total_spans |-> 0, storage_size |-> "0 MB"],
     err |-> ""]

MockGetTrace(id, now) ==
    /\ ret' = [op |-> "GetTrace", arg |-> id] @@ MockGetTraceResult(store, open, id, now)
    /\ UNCHANGED <<store, open, acked, overwrote, pc, pend, rd>>

MockGetTraces(limit, now) ==
    /\ ret' = [op |-> "GetTraces", arg |-> limit]
              @@ MockGetTracesResult(store, open, limit, now)
    /\ UNCHANGED <<store, open, acked, overwrote, pc, pend, rd>>

MockGetStats ==
    /\ ret' = [op |-> "GetStats", arg |-> <<>>] @@ MockGetStatsResult(store, open)
    /\ UNCHANGED <<store, open, acked, overwrote, pc, pend, rd>>

\* The directory holds what earlier runs stored
InitMock ==
    /\ store \in {StoreAll(<<>>, S) : S \in SUBSET PlainTraces}
    /\ open = TRUE
    /\ ret = NoRet
    /\ acked = <<>>
    /\ overwrote = {}
    /\ pc = [w \in Workers |-> "idle"]
    /\ pend = [w \in Workers |-> <<>>]
    /\ rd = [pc |-> "idle"]

NextMock ==
    \/ \E id \in QueryIds : \E now \in Clock : MockGetTrace(id, now)
    \/ \E limit \in 0..MaxLimit : \E now \in Clock : MockGetTraces(limit, now)
    \/ MockGetStats
    \/ Close

SpecMock == InitMock /\ [][NextMock]_vars

\* C32: in the mock variant GetTrace succeeds for every id, stored or not,
\* and GetStats returns total_traces 0 and total_spans 0, in every state and
\* whatever the directory holds.
C32_MockIgnoresData ==
    /\ \A id \in QueryIds : \A now \in Clock :
           MockGetTraceResult(store, open, id, now).ok
    /\ (ret.op = "GetTrace") => ret.ok
    /\ MockGetStatsResult(store, open).val.total_traces = 0
    /\ MockGetStatsResult(store, open).val.total_spans = 0
    /\ (ret.op = "GetStats")
           => (ret.ok /\ ret.val.total_traces = 0 /\ ret.val.total_spans = 0)

\* GetTrace succeeded on an id that was never stored, over a store with records
C32_Witness ==
    /\ ret.op = "GetTrace" /\ ret.ok
    /\ LookupKey(ret.arg) \notin DOMAIN store
    /\ Cardinality(DOMAIN store) = 3

-----------------------------------------------------------------------------
(* Start to its return.  Besides main and the HTTP handlers, pc holds the   *)
(* goroutine that runs ListenAndServe ("http"), the goroutine that runs the *)
(* gRPC server ("grpc"), and a call of the reflection service, the one      *)
(* service the gRPC server registers ("rpc"); the call is a stream that     *)
(* lasts until its client ends it.                                          *)

ServerGoroutines == Goroutines \cup {"http", "grpc", "rpc"}

InitShutdown ==
    /\ store = <<>>
    /\ open = TRUE
    /\ ret = NoRet
    /\ acked = <<>>
    /\ overwrote = {}
    /\ pc = [g \in ServerGoroutines |->
                CASE g = "main" -> "serving"
                  [] g \in {"http", "grpc"} -> "starting"
                  [] OTHER -> "idle"]
    /\ pend = [h \in Handlers |-> NoRequest]
    /\ rd = [pc |-> "idle"]

\* httpServer.ListenAndServe() binds the address and serves
HTTPListen ==
    /\ pc["main"] = "serving"
    /\ pc["http"] = "starting"
    /\ pc' = [pc EXCEPT !["http"] = "listening"]
    /\ UNCHANGED <<store, open, ret, acked, overwrote, pend, rd>>

\* ListenAndServe returns an error, or ErrServerClosed when Shutdown came
\* first; the goroutine logs the error and ends
HTTPListenFails ==
    /\ pc["http"] = "starting"
    /\ pc' = [pc EXCEPT !["http"] = "failed"]
    /\ UNCHANGED <<store, open, ret, acked, overwrote, pend, rd>>

\* server.grpc.Start: net.Listen succeeds and grpcServer.Serve serves
GRPCListen ==
    /\ pc["main"] \in {"serving", "shutdown"}
    /\ pc["grpc"] = "starting"
    /\ pc' = [pc EXCEPT !["grpc"] = "serving"]
    /\ UNCHANGED <<store, open, ret, acked, overwrote, pend, rd>>

\* server.grpc.Start returns an error of net.Listen or Serve; the goroutine
\* logs it and ends
GRPCListenFails ==
    /\ pc["grpc"] = "starting"
    /\ pc' = [pc EXCEPT !["grpc"] = "failed"]
    /\ UNCHANGED <<store, open, ret, acked, overwrote, pend, rd>>

\* A client opens a stream of the reflection service
StreamOpen ==
    /\ pc["main"] \in {"serving", "shutdown"}
    /\ pc["grpc"] = "serving"
    /\ pc["rpc"] = "idle"
    /\ pc' = [pc EXCEPT !["rpc"] = "streaming"]
    /\ UNCHANGED <<store, open, ret, acked, overwrote, pend, rd>>

\* The client ends its stream
StreamEnd ==
    /\ pc["rpc"] = "streaming"
    /\ pc' = [pc EXCEPT !["rpc"] = "idle"]
    /\ UNCHANGED <<store, open, ret, acked, overwrote, pend, rd>>

\* s.grpcServer.GracefulStop() returns once no call is pending
GracefulStop ==
    /\ pc["rpc"] # "streaming"
    /\ GrpcStop

\* A request is accepted while the listener is up
AcceptListening(h, req) ==
    /\ pc["http"] = "listening"
    /\ Accept(h, req)

\* The requests in flight at shutdown: a POST of a trace and a GET of it
ShutdownRequests ==
    {req \in Requests :
        \/ req.route = "GetTrace"
        \/ req.route = "StoreTrace" /\ StoreSucceeds(req.body, <<>>, TRUE)}

NextShutdown ==
    \/ HTTPListen
    \/ HTTPListenFails
    \/ GRPCListen
    \/ GRPCListenFails
    \/ \E h \in Handlers : \E req \in ShutdownRequests : AcceptListening(h, req)
    \/ \E h \in Handlers : Serve(h)
    \/ StreamOpen
    \/ StreamEnd
    \/ Signal
    \/ ShutdownDrained
    \/ ShutdownTimeout
    \/ GracefulStop
    \/ StorageClose
    \/ Exit

\* The goroutine of Start keeps running and each call it makes returns when
\* it can.  Nothing is assumed of the handlers, and nothing makes a client
\* end its stream
FairShutdown ==
    /\ WF_vars(ShutdownDrained)
    /\ WF_vars(ShutdownTimeout)
    /\ WF_vars(GracefulStop)
    /\ WF_vars(StorageClose)
    /\ WF_vars(Exit)

SpecShutdown == InitShutdown /\ [][NextShutdown]_vars /\ FairShutdown

\* C36: shutdown liveness.  Once Start has received the signal it closes the
\* store and returns, whatever requests are in flight; and Start returns only
\* on the way that begins with the signal, also when a listener did not start.
C36_ShutdownCompletes ==
    /\ (pc["main"] = "shutdown") ~> (pc["main"] = "exited" /\ ~open)
    /\ [][(pc'["main"] # pc["main"] /\ pc["main"] = "serving")
              => pc'["main"] = "shutdown"]_vars

-----------------------------------------------------------------------------
(* A store with about as many records as the list handler returns, and one  *)
(* client whose requests are answered one after the other.                  *)

\* The id of the i-th record: three decimal digits
ManyId(i) == <<48 + (i \div 100), 48 + ((i \div 10) % 10), 48 + (i % 10)>>

\* The store after StoreTrace of traces without spans on the first n ids
ManyStore(n) ==
    [k \in {TraceKey(ManyId(i)) : i \in 1..n} |->
        Marshal(MkTrace(Str(SubSeq(k, Len(Prefix) + 1, Len(k))), Spans(0), Absent)).data]

\* Ids that come before every ManyId in key order ("!", "#") and one that
\* comes after ("z")
EdgeIds == {<<33>>, <<35>>, <<122>>}

ListRequests ==
    {[route |-> "StoreTrace", id |-> <<>>,
      body |-> Marshal(MkTrace(Str(id), Spans(0), Absent)).data] : id \in EdgeIds}
    \cup {[route |-> "GetTrace", id |-> id, body |-> <<>>] :
             id \in {ManyId(1), ManyId(ListLimit + 1)}}
    \cup {[route |-> "GetTraces", id |-> <<>>, body |-> <<>>]}

InitList ==
    /\ store \in {ManyStore(n) : n \in (ListLimit - 1)..(ListLimit + ListExtra)}
    /\ open = TRUE
    /\ ret = NoRet
    /\ acked = <<>>
    /\ overwrote = {}
    /\ pc = [w \in Workers |-> "idle"]
    /\ pend = [w \in Workers |-> <<>>]
    /\ rd = [pc |-> "idle"]

\* The router dispatches req and its handler runs to the response
Request(req) ==
    \E r \in {Respond(req, store, open)} :
        /\ store' = r.db
        /\ ret' = [op |-> r.op, arg |-> r.arg, ok |-> r.ok, val |-> r.val,
                   err |-> r.err, status |-> r.status]
        /\ UNCHANGED <<open, acked, overwrote, pc, pend, rd>>

NextList == \E req \in ListRequests : Request(req)

SpecList == InitList /\ [][NextList]_vars

====
